---- MODULE Spec2Model ----
(***************************************************************************)
(* Model of the AddressAutocomplete component.  Two builds of the          *)
(* component exist in the repository:                                      *)
(*   variant = "scan"   src/unnamed/part_000 (token-scanning tokenizer,    *)
(*                      unconditional hint override, road filter)          *)
(*   variant = "regex"  src/test-input/src/AddressAutocomplete.tsx         *)
(*                      (regex tokenizer, gated hint override)             *)
(* A JavaScript string is a sequence of one-character strings; where a     *)
(* string is expected, null and undefined are the values Null and          *)
(* Undefined; where an object is expected, undefined is NoObject.          *)
(***************************************************************************)
EXTENDS Integers, Sequences, FiniteSets, TLC

VARIABLES
    variant,    \* which build of the component runs
    pc,         \* position of the call being followed
    query,      \* raw text given to the tokenizer / searchAddresses
    parsed,     \* the hint extractStreetAndNumber returned
    result,     \* the record given to formatArgentinianAddress
    injected,   \* the hint given to formatArgentinianAddress
    formatted,  \* what formatArgentinianAddress returned
    results,    \* the body of the lookup response searchAddresses received
    suggestions,        \* useState: the suggestion list
    showSuggestions,    \* useState: whether the list is shown
    isLoading,          \* useState: the loading flag
    inputValue,         \* useState: the text in the input
    selectedIndex,      \* useState: the highlighted suggestion, -1 for none
    debounceRef,        \* useRef: the id of the timer scheduled last
    timers,             \* the browser's timers, by id
    calls,              \* the searchAddresses calls started, in order
    mounted,            \* whether the component is mounted
    addressSaved,       \* App's useState, passed down as the value prop
    emitted,            \* onAddressSelect invocations of the handler run last
    downloads,          \* files saved by the handler run last
    lastEvent           \* the handler run last

tokVars == <<query, parsed>>
fmtVars == <<result, injected, formatted>>
uiVars == <<suggestions, showSuggestions, isLoading>>
appVars == <<addressSaved, emitted, downloads>>
compVars == <<inputValue, selectedIndex, debounceRef, timers, calls, mounted,
              appVars, lastEvent>>
vars == <<variant, pc, tokVars, fmtVars, results, uiVars, compVars>>

\* ------------------------------------------------------------------ bounds
\* Longest raw text drawn for the tokenizer.
MaxLen == 5
\* Most records in one lookup response.
MaxResults == 2
\* Most input changes followed in one run of the component.
MaxInputs == 2

\* ------------------------------------------------------- JavaScript values
Null == <<"NULL">>
Undefined == <<"UNDEFINED">>
NoObject == [undefined |-> TRUE]
\* useRef<number | null>(null): no timer id; the ids setTimeout gives are 1, 2, ...
NoTimer == 0

Variants == {"scan", "regex"}

\* Truthiness of a string-or-null-or-undefined value (if (x), x || '').
Truthy(x) == x # Null /\ x # Undefined /\ x # <<>>
\* Truthiness of an object-or-undefined value (if (!addr), injected?.x).
IsObject(x) == x # NoObject

Min(S) == CHOOSE x \in S : \A y \in S : x <= y
Max(S) == CHOOSE x \in S : \A y \in S : x >= y

\* ------------------------------------------------------- character classes
Digit == {"0", "1", "2", "3", "4", "5", "6", "7", "8", "9"}
LowerSeq == <<"a", "b", "c", "d", "e", "f", "g", "h", "i", "j", "k", "l", "m",
             "n", "o", "p", "q", "r", "s", "t", "u", "v", "w", "x", "y", "z">>
UpperSeq == <<"A", "B", "C", "D", "E", "F", "G", "H", "I", "J", "K", "L", "M",
             "N", "O", "P", "Q", "R", "S", "T", "U", "V", "W", "X", "Y", "Z">>
Lower == {LowerSeq[i] : i \in 1..Len(LowerSeq)}
Upper == {UpperSeq[i] : i \in 1..Len(UpperSeq)}
\* \s and the characters trim() strips (the two that the inputs drawn here use).
WhiteSpace == {" ", "\t"}
\* Characters the regex dot does not match.
LineTerminator == {"\n", "\r"}
\* \w
WordChar == Digit \cup Lower \cup Upper \cup {"_"}
\* [A-Za-z0-9\-\/]
NumberTailChar == Digit \cup Lower \cup Upper \cup {"-", "/"}

\* ------------------------------------------------------- string primitives
\* input.split(',')[0]
BeforeComma(s) ==
    LET commas == {i \in 1..Len(s) : s[i] = ","}
    IN  IF commas = {} THEN s ELSE SubSeq(s, 1, Min(commas) - 1)

\* String.prototype.trim
Trim(s) ==
    LET solid == {i \in 1..Len(s) : s[i] \notin WhiteSpace}
    IN  IF solid = {} THEN <<>> ELSE SubSeq(s, Min(solid), Max(solid))

\* s.split(/\s+/): the pieces between maximal whitespace runs; a leading or
\* trailing run yields an empty piece, and "" yields the one piece "".
RECURSIVE SplitWs(_)
SplitWs(s) ==
    LET ws == {i \in 1..Len(s) : s[i] \in WhiteSpace}
    IN  IF ws = {} THEN <<s>>
        ELSE LET i == Min(ws)
                 after == {j \in (i + 1)..Len(s) : s[j] \notin WhiteSpace}
                 j == IF after = {} THEN Len(s) + 1 ELSE Min(after)
             IN  <<SubSeq(s, 1, i - 1)>> \o SplitWs(SubSeq(s, j, Len(s)))

\* Array.prototype.join
RECURSIVE Join(_, _)
Join(toks, sep) ==
    IF Len(toks) = 0 THEN <<>>
    ELSE IF Len(toks) = 1 THEN toks[1]
    ELSE toks[1] \o sep \o Join(Tail(toks), sep)

\* /^\d+[A-Za-z0-9\-\/]*$/.test(token)
IsNumericToken(token) ==
    \E k \in 1..Len(token) :
        /\ \A i \in 1..k : token[i] \in Digit
        /\ \A i \in (k + 1)..Len(token) : token[i] \in NumberTailChar

\* tokens.slice(0, end), end a 0-based exclusive index
SliceTo(tokens, end) == SubSeq(tokens, 1, end)

\* ------------------------------------------------ tokenizer, token scanning
\* Variant of NumericTokenIndices whose pattern is not anchored at the start.
NumericTokenIndicesUnanchored(tokens) ==
    LET idxs == [i \in 1..Len(tokens) |-> i - 1]
        Numeric(idx) ==
            \E k \in 1..Len(tokens[idx + 1]) :
                IsNumericToken(SubSeq(tokens[idx + 1], k, Len(tokens[idx + 1])))
    IN  SelectSeq(idxs, Numeric)

\* The 0-based indices of the numeric tokens, ascending (forEach + push).
NumericTokenIndices(tokens) ==
    LET idxs == [i \in 1..Len(tokens) |-> i - 1]
        Numeric(idx) == IsNumericToken(tokens[idx + 1])
    IN  SelectSeq(idxs, Numeric)

\* Variant of HouseNumberIdx that takes the first numeric token.
HouseNumberIdxFirst(numericTokenIndices) == numericTokenIndices[1]

\* Which of the indices the two-or-more case takes as the house number.
HouseNumberIdx(numericTokenIndices) ==
    numericTokenIndices[Len(numericTokenIndices)]

\* Variant of IsTrailingNumber without the numIdx > 0 test.
IsTrailingNumberAnyIndex(numIdx, tokens) == numIdx = Len(tokens) - 1

\* The test of the one-numeric-token case for a house number.
IsTrailingNumber(numIdx, tokens) ==
    numIdx = Len(tokens) - 1 /\ numIdx > 0

\* Variant of StreetWithoutNumber that rebuilds the street from the tokens.
StreetWithoutNumberRejoined(withoutCommas, tokens) == Join(tokens, <<" ">>)

\* What the tokenizer returns as street when it finds no house number.
StreetWithoutNumber(withoutCommas, tokens) == withoutCommas

extractStreetAndNumber(input) ==
    LET withoutCommas == Trim(BeforeComma(input))
        tokens == SplitWs(withoutCommas)
        numericTokenIndices == NumericTokenIndices(tokens)
    IN  IF Len(numericTokenIndices) >= 2
        THEN LET houseNumberIdx == HouseNumberIdx(numericTokenIndices)
             IN  [street |-> Trim(Join(SliceTo(tokens, houseNumberIdx), <<" ">>)),
                  number |-> tokens[houseNumberIdx + 1]]
        ELSE IF Len(numericTokenIndices) = 1
        THEN LET numIdx == numericTokenIndices[1]
             IN  IF IsTrailingNumber(numIdx, tokens)
                 THEN [street |-> Trim(Join(SliceTo(tokens, numIdx), <<" ">>)),
                       number |-> tokens[numIdx + 1]]
                 ELSE [street |-> StreetWithoutNumber(withoutCommas, tokens),
                       number |-> Null]
        ELSE [street |-> StreetWithoutNumber(withoutCommas, tokens),
              number |-> Null]

\* ------------------------------------------------------- tokenizer, regex
\* \b before the 0-based position i of s
WordBoundary(s, i) ==
    LET before == i >= 1 /\ s[i] \in WordChar
        after == i < Len(s) /\ s[i + 1] \in WordChar
    IN  before # after

\* The 0-based positions where /^(.*?)(\b\d+[A-Za-z0-9\-\/]*)$/ can start its
\* second group.
NumberSuffixStarts(s) ==
    {i \in 0..(Len(s) - 1) :
        /\ \A k \in 1..i : s[k] \notin LineTerminator
        /\ WordBoundary(s, i)
        /\ IsNumericToken(SubSeq(s, i + 1, Len(s)))}

\* s.replace(/\d+.*/, ''): the first digit run and the rest of its line go.
StripFromFirstDigit(s) ==
    LET digits == {i \in 1..Len(s) : s[i] \in Digit}
    IN  IF digits = {} THEN s
        ELSE LET p == Min(digits)
                 ends == {j \in (p + 1)..Len(s) : s[j] \in LineTerminator}
                 q == IF ends = {} THEN Len(s) + 1 ELSE Min(ends)
             IN  SubSeq(s, 1, p - 1) \o SubSeq(s, q, Len(s))

\* What the regex tokenizer returns as street when it finds no house number.
RegexStreetWithoutNumber(withoutCommas) == Trim(StripFromFirstDigit(withoutCommas))

extractStreetAndNumberRegex(input) ==
    LET withoutCommas == Trim(BeforeComma(input))
        starts == NumberSuffixStarts(withoutCommas)
        \* the lazy first group takes the earliest start
        at == Min(starts)
        street == Trim(SubSeq(withoutCommas, 1, at))
        number == Trim(SubSeq(withoutCommas, at + 1, Len(withoutCommas)))
    IN  IF starts # {} /\ Truthy(street) /\ Truthy(number)
        THEN [street |-> street, number |-> number]
        ELSE [street |-> RegexStreetWithoutNumber(withoutCommas), number |-> Null]

\* The tokenizer of the build.
Tokenize(v, input) ==
    IF v = "scan" THEN extractStreetAndNumber(input)
    ELSE extractStreetAndNumberRegex(input)

\* ------------------------------------------------------------- formatter
\* String.prototype.toLowerCase
LowerOfChar(c) ==
    IF c \in Upper THEN LowerSeq[CHOOSE i \in 1..Len(UpperSeq) : UpperSeq[i] = c]
    ELSE c
ToLowerCase(s) == [i \in 1..Len(s) |-> LowerOfChar(s[i])]

\* String.prototype.includes
Includes(s, sub) ==
    \E i \in 0..(Len(s) - Len(sub)) : SubSeq(s, i + 1, i + Len(sub)) = sub

\* x || ''
OrEmpty(x) == IF Truthy(x) THEN x ELSE <<>>

\* injected?.street, injected?.number
HintStreet(hint) == IF ~IsObject(hint) THEN Undefined ELSE hint.street
HintNumber(hint) == IF ~IsObject(hint) THEN Undefined ELSE hint.number

\* addr.town || addr.suburb || addr.village || ''
Locality(addr) ==
    IF Truthy(addr.town) THEN addr.town
    ELSE IF Truthy(addr.suburb) THEN addr.suburb
    ELSE OrEmpty(addr.village)

\* Variant of Municipality that looks at city first.
MunicipalityCityFirst(addr) ==
    IF Truthy(addr.city) THEN addr.city
    ELSE IF Truthy(addr.city_district) THEN addr.city_district
    ELSE OrEmpty(addr.municipality)

\* addr.municipality || addr.city_district || addr.city || ''
Municipality(addr) ==
    IF Truthy(addr.municipality) THEN addr.municipality
    ELSE IF Truthy(addr.city_district) THEN addr.city_district
    ELSE OrEmpty(addr.city)

\* number ? `${street} ${number}` : street
StreetSegment(street, number) ==
    IF Truthy(number) THEN street \o <<" ">> \o number ELSE street

\* The hint's loose match with the record's road (regex build).
LooseStreetMatch(hint, streetOSM) ==
    LET userStreetLc == ToLowerCase(hint.street)
        osmStreetLc == ToLowerCase(streetOSM)
    IN  /\ Truthy(userStreetLc)
        /\ Truthy(osmStreetLc)
        /\ Includes(osmStreetLc, userStreetLc) \/ Includes(userStreetLc, osmStreetLc)

\* Variant of NumberToUse that takes the hint's number only on a loose match.
NumberToUseOnMatch(addr, hint) ==
    IF Truthy(HintNumber(hint)) /\ LooseStreetMatch(hint, OrEmpty(addr.road))
    THEN hint.number ELSE OrEmpty(addr.house_number)

\* Variant of NumberToUse that prefers the record's house number.
NumberToUseRecordFirst(addr, hint) ==
    IF Truthy(addr.house_number) THEN addr.house_number
    ELSE IF Truthy(HintNumber(hint)) THEN hint.number ELSE <<>>

\* The number of the street segment: the hint's whenever it has one.
NumberToUse(addr, hint) ==
    IF Truthy(HintNumber(hint)) THEN hint.number ELSE OrEmpty(addr.house_number)

\* Variant of NumberToUseGated without the gate.
NumberToUseUngated(addr, hint) ==
    IF Truthy(HintNumber(hint)) THEN hint.number ELSE OrEmpty(addr.house_number)

\* The same in the regex build: the hint's only on a loose street match.
NumberToUseGated(addr, hint) ==
    IF Truthy(HintNumber(hint)) /\ LooseStreetMatch(hint, OrEmpty(addr.road))
    THEN hint.number ELSE OrEmpty(addr.house_number)

\* The street of the street segment: the hint's whenever it has one.
StreetToUse(addr, hint) ==
    IF Truthy(HintStreet(hint)) THEN hint.street ELSE OrEmpty(addr.road)

\* The street part pushed first, or no part.
StreetParts(addr, hint) ==
    LET streetToUse == StreetToUse(addr, hint)
    IN  IF Truthy(streetToUse)
        THEN <<StreetSegment(streetToUse, NumberToUse(addr, hint))>>
        ELSE <<>>

\* The same in the regex build: the road with the gated number, else the
\* hint's street with the hint's number.
StreetPartsGated(addr, hint) ==
    LET streetOSM == OrEmpty(addr.road)
    IN  IF Truthy(streetOSM)
        THEN <<StreetSegment(streetOSM, NumberToUseGated(addr, hint))>>
        ELSE IF Truthy(HintStreet(hint))
        THEN <<StreetSegment(hint.street, HintNumber(hint))>>
        ELSE <<>>

\* if (x) parts.push(x)
PushIf(x) == IF Truthy(x) THEN <<x>> ELSE <<>>

\* Variant of OrDisplayName without the fallback.
OrDisplayNameNever(text, display_name) == text

\* formatted || result.display_name
OrDisplayName(text, display_name) == IF Truthy(text) THEN text ELSE display_name

\* The parts after the street part, and the join, are the same in both builds.
FormatWith(streetParts, rec) ==
    LET addr == rec.address
        parts == streetParts \o PushIf(Locality(addr))
                             \o PushIf(Municipality(addr))
                             \o PushIf(OrEmpty(addr.state))
    IN  OrDisplayName(Trim(Join(parts, <<",", " ">>)), rec.display_name)

formatArgentinianAddress(rec, hint) ==
    IF ~IsObject(rec.address) THEN rec.display_name
    ELSE FormatWith(StreetParts(rec.address, hint), rec)

formatArgentinianAddressGated(rec, hint) ==
    IF ~IsObject(rec.address) THEN rec.display_name
    ELSE FormatWith(StreetPartsGated(rec.address, hint), rec)

\* The formatter of the build.
FormatAddress(v, rec, hint) ==
    IF v = "scan" THEN formatArgentinianAddress(rec, hint)
    ELSE formatArgentinianAddressGated(rec, hint)

\* --------------------------------------------------------- searchAddresses
\* query.length < 3
MinQueryLength == 3

\* r.address?.road
HasRoad(r) == IsObject(r.address) /\ Truthy(r.address.road)

\* Variant of Candidates without the road filter.
CandidatesAll(v, body) == body

\* The records that are formatted: those with a road in the scan build
\* (results.filter(r => r.address?.road)), all of them in the regex build.
Candidates(v, body) ==
    IF v = "scan" THEN SelectSeq(body, HasRoad) ELSE body

\* candidates.map(r => ({...r, display_name: formatArgentinianAddress(r, parsed)}))
MapFormatted(v, candidates, hint) ==
    [i \in 1..Len(candidates) |->
        [candidates[i] EXCEPT !.display_name = FormatAddress(v, candidates[i], hint)]]

\* Variant of FilterByNumber without the fallback.
FilterByNumberOnly(mapped, hint) ==
    IF Truthy(hint.number)
    THEN LET HasNumber(m) == Includes(m.display_name, hint.number)
         IN  SelectSeq(mapped, HasNumber)
    ELSE mapped

\* The number filter with its fallback to the unfiltered list.
FilterByNumber(mapped, hint) ==
    IF Truthy(hint.number)
    THEN LET HasNumber(m) == Includes(m.display_name, hint.number)
             filtered == SelectSeq(mapped, HasNumber)
         IN  IF Len(filtered) = 0 THEN mapped ELSE filtered
    ELSE mapped

\* The dedupe loop: an entry is pushed unless its display_name was seen.
RECURSIVE DedupeFrom(_, _, _)
DedupeFrom(mapped, seen, deduped) ==
    IF mapped = <<>> THEN deduped
    ELSE LET m == Head(mapped)
         IN  IF m.display_name \in seen
             THEN DedupeFrom(Tail(mapped), seen, deduped)
             ELSE DedupeFrom(Tail(mapped), seen \cup {m.display_name}, Append(deduped, m))

\* Variant of Dedupe that keeps the last entry of each display_name.
RECURSIVE DedupeKeepLast(_)
DedupeKeepLast(mapped) ==
    IF mapped = <<>> THEN <<>>
    ELSE IF \E j \in 2..Len(mapped) : mapped[j].display_name = mapped[1].display_name
    THEN DedupeKeepLast(Tail(mapped))
    ELSE <<Head(mapped)>> \o DedupeKeepLast(Tail(mapped))

Dedupe(mapped) == DedupeFrom(mapped, {}, <<>>)

\* The list searchAddresses sets on a successful response.
Deduped(v, body, hint) ==
    Dedupe(FilterByNumber(MapFormatted(v, Candidates(v, body), hint), hint))

\* ------------------------------------------------------ the tokenizer alone
\* Characters of the raw texts drawn: a letter, a digit, the two kinds of
\* whitespace, the comma and a non-word character of the number pattern.
TokAlphabet == {"a", "1", " ", "\t", ",", "-"}

RawTexts == UNION {[1..n -> TokAlphabet] : n \in 0..MaxLen}

\* The component's state after construction (the useState initial values).
Mounted ==
    /\ results = <<>>
    /\ suggestions = <<>>
    /\ showSuggestions = FALSE
    /\ isLoading = FALSE
    /\ addressSaved = <<>>
    /\ inputValue = addressSaved
    /\ selectedIndex = -1
    /\ debounceRef = NoTimer
    /\ timers = <<>>
    /\ calls = <<>>
    /\ mounted = TRUE
    /\ emitted = <<>>
    /\ downloads = <<>>
    /\ lastEvent = "mount"

FmtIdle == result = NoObject /\ injected = NoObject /\ formatted = Undefined

InitTok ==
    /\ variant \in Variants
    /\ pc = "typed"
    /\ query \in RawTexts
    /\ parsed = NoObject
    /\ FmtIdle
    /\ Mounted

\* const parsed = extractStreetAndNumber(query)
Extract ==
    /\ pc = "typed"
    /\ parsed' = Tokenize(variant, query)
    /\ pc' = "parsed"
    /\ UNCHANGED <<variant, query, fmtVars, results, uiVars, compVars>>

NextTok == Extract

SpecTok == InitTok /\ [][NextTok]_vars

\* The head of a raw text and its tokens, as the specification words them.
HeadOf(raw) == Trim(BeforeComma(raw))
HeadTokens(raw) == SplitWs(HeadOf(raw))
\* 1-based positions of the numeric tokens of the head.
NumericPositions(raw) ==
    {i \in 1..Len(HeadTokens(raw)) : IsNumericToken(HeadTokens(raw)[i])}

TokIdle == query = <<>> /\ parsed = NoObject

\* ------------------------------------------------------ the formatter alone
\* Raw texts whose hints the formatter is given: no street; a street; a
\* street and a number; another street and number.
HintTexts == {<<>>, <<"a", "b">>, <<"a", "b", " ", "1">>, <<"c", " ", "1">>}

\* Values of the fields of a lookup result: absent (undefined) or a string.
Opt(text) == {Undefined, text}

Addresses ==
    [house_number : Opt(<<"7">>),
     road : {Undefined, <<>>, <<"A", "b">>},
     suburb : Opt(<<"U">>),
     city : Opt(<<"C">>),
     town : Opt(<<"T">>),
     village : Opt(<<"V">>),
     municipality : Opt(<<"M">>),
     city_district : Opt(<<"D">>),
     state : {Undefined, <<"S">>, <<"S", " ">>, <<" ">>},
     postcode : Opt(<<"P">>),
     country : Opt(<<"K">>)]

DisplayNames == {<<"N">>, <<" ", "n">>}

LookupResults ==
    [display_name : DisplayNames, lat : {0}, address : Addresses \cup {NoObject}]

InitFmt ==
    /\ variant \in Variants
    /\ pc = "given"
    /\ result \in LookupResults
    /\ injected \in {Tokenize(variant, text) : text \in HintTexts}
    /\ formatted = Undefined
    /\ TokIdle
    /\ Mounted

\* display_name: formatArgentinianAddress(r, parsed)
Format ==
    /\ pc = "given"
    /\ formatted' = FormatAddress(variant, result, injected)
    /\ pc' = "formatted"
    /\ UNCHANGED <<variant, result, injected, tokVars, results, uiVars, compVars>>

NextFmt == Format

SpecFmt == InitFmt /\ [][NextFmt]_vars

\* --------------------------------------------- properties of the tokenizer
ScanDone == pc = "parsed" /\ variant = "scan"
RegexDone == pc = "parsed" /\ variant = "regex"

NoEdgeWhiteSpace(s) ==
    Len(s) > 0 => s[1] \notin WhiteSpace /\ s[Len(s)] \notin WhiteSpace
NoWhiteSpaceRun(s) ==
    \A i \in 1..(Len(s) - 1) : ~(s[i] \in WhiteSpace /\ s[i + 1] \in WhiteSpace)

\* C1: with two or more numeric tokens in the head, the token-scanning
\* tokenizer returns the last numeric token as the number and the tokens
\* before it, joined by single spaces, as the street; later tokens are dropped.
C1_LastNumericTokenIsNumber ==
    ScanDone /\ Cardinality(NumericPositions(query)) >= 2 =>
        LET toks == HeadTokens(query)
            last == Max(NumericPositions(query))
        IN  /\ parsed.number = toks[last]
            /\ parsed.street = Join(SubSeq(toks, 1, last - 1), <<" ">>)

\* Two numeric tokens followed by a token that is dropped.
C1_Witness ==
    /\ ScanDone
    /\ Cardinality(NumericPositions(query)) >= 2
    /\ Max(NumericPositions(query)) < Len(HeadTokens(query))
    /\ parsed.number = HeadTokens(query)[Max(NumericPositions(query))]

\* C2: with exactly one numeric token the token-scanning tokenizer returns it
\* as the number (street = the tokens before it) exactly when it is the last
\* token and not the first; in every other case, and with no numeric token,
\* street is the whole head and number is null.
C2_SingleNumericToken ==
    ScanDone /\ Cardinality(NumericPositions(query)) <= 1 =>
        LET toks == HeadTokens(query)
            nums == NumericPositions(query)
            trailing == \E i \in nums : i = Len(toks) /\ i > 1
        IN  /\ parsed.number # Null <=> trailing
            /\ trailing =>
                 /\ parsed.number = toks[Len(toks)]
                 /\ parsed.street = Join(SubSeq(toks, 1, Len(toks) - 1), <<" ">>)
            /\ ~trailing =>
                 /\ parsed.street = HeadOf(query)
                 /\ parsed.number = Null

\* A single numeric token that starts a head of several tokens.
C2_Witness ==
    /\ ScanDone
    /\ NumericPositions(query) = {1}
    /\ Len(HeadTokens(query)) >= 2
    /\ parsed.number = Null
    /\ parsed.street = HeadOf(query)

\* C9 as stated: the street of the token-scanning tokenizer never has leading
\* or trailing whitespace nor two consecutive whitespace characters, whether
\* or not a number is extracted.
C9_StreetAlwaysCollapsed ==
    ScanDone => NoEdgeWhiteSpace(parsed.street) /\ NoWhiteSpaceRun(parsed.street)

\* C9 amended: the street never has leading or trailing whitespace; when a
\* number is extracted its only whitespace is single spaces between tokens;
\* when number is null the street is the trimmed head with its inner
\* whitespace as typed.
C9_StreetCollapsedWhenNumber ==
    ScanDone =>
        /\ NoEdgeWhiteSpace(parsed.street)
        /\ parsed.number # Null =>
             /\ NoWhiteSpaceRun(parsed.street)
             /\ \A i \in 1..Len(parsed.street) :
                    parsed.street[i] \in WhiteSpace => parsed.street[i] = " "
        /\ parsed.number = Null => parsed.street = HeadOf(query)

\* A number extracted from a head typed with a whitespace run inside.
C9_Witness ==
    /\ ScanDone
    /\ parsed.number # Null
    /\ ~NoWhiteSpaceRun(HeadOf(query))
    /\ NoWhiteSpaceRun(parsed.street)

\* C10: for a head that begins with a numeric token and does not end with
\* one, the regex tokenizer returns street = the whole head and number = null.
C10_RegexLeadingNumberKeepsHead ==
    RegexDone /\ 1 \in NumericPositions(query)
              /\ Len(HeadTokens(query)) \notin NumericPositions(query) =>
        /\ parsed.street = HeadOf(query)
        /\ parsed.number = Null

\* ---------------------------------------------------- searchAddresses runs
\* Texts searchAddresses is called with: too short; a street; a street and a
\* number; another street and a number that is part of other numbers; a
\* street that is a number; a number with a letter.
SearchTexts ==
    {<<"a", "b">>, <<"a", "b", "c">>, <<"a", "b", " ", "1">>, <<"c", " ", "2">>,
     <<"1", " ", "2">>, <<"a", " ", "1", "b">>}

Addr(road, house_number, town) ==
    [house_number |-> house_number, road |-> road, suburb |-> Undefined,
     city |-> Undefined, town |-> town, village |-> Undefined,
     municipality |-> Undefined, city_district |-> Undefined,
     state |-> Undefined, postcode |-> Undefined, country |-> Undefined]

\* Records a lookup answers with: without address, without road, and roads
\* with and without house numbers in two towns.
SearchRecords ==
    {[display_name |-> <<"N">>, lat |-> 0, address |-> NoObject],
     [display_name |-> <<"N">>, lat |-> 0, address |-> Addr(Undefined, Undefined, <<"T">>)],
     [display_name |-> <<"N">>, lat |-> 0, address |-> Addr(<<"A", "b">>, Undefined, <<"T">>)],
     [display_name |-> <<"N">>, lat |-> 0, address |-> Addr(<<"A", "b">>, <<"1">>, <<"V">>)],
     [display_name |-> <<"N">>, lat |-> 0, address |-> Addr(<<"c">>, <<"2">>, <<"T">>)],
     [display_name |-> <<"N">>, lat |-> 0, address |-> Addr(<<"c">>, <<"1", "2">>, <<"V">>)]}

\* Response bodies: up to MaxResults records, each with its own lat.
ResponseBodies ==
    UNION {{[i \in 1..n |-> [recs[i] EXCEPT !.lat = i]] : recs \in [1..n -> SearchRecords]}
           : n \in 0..MaxResults}

Returned == {"idle", "short", "ok", "failed"}

InitSearch ==
    /\ variant \in Variants
    /\ pc = "idle"
    /\ TokIdle
    /\ FmtIdle
    /\ Mounted

\* searchAddresses(newValue) is called.
Call(text) ==
    /\ pc \in Returned
    /\ query' = text
    /\ parsed' = NoObject
    /\ results' = <<>>
    /\ pc' = "called"
    /\ UNCHANGED <<variant, fmtVars, uiVars, compVars>>

\* The query is shorter than 3 characters: clear and return.
SearchShort ==
    /\ pc = "called"
    /\ Len(query) < MinQueryLength
    /\ suggestions' = <<>>
    /\ showSuggestions' = FALSE
    /\ pc' = "short"
    /\ UNCHANGED <<variant, tokVars, fmtVars, results, isLoading, compVars>>

\* The hint is parsed, the loading flag set and the lookup sent.
SearchFetch ==
    /\ pc = "called"
    /\ ~(Len(query) < MinQueryLength)
    /\ parsed' = Tokenize(variant, query)
    /\ isLoading' = TRUE
    /\ pc' = "awaiting"
    /\ UNCHANGED <<variant, query, fmtVars, results, suggestions, showSuggestions, compVars>>

\* response.ok with a body: filter, format, number filter, dedupe, show.
ResponseOk(body) ==
    /\ pc = "awaiting"
    /\ results' = body
    /\ LET deduped == IF Len(Candidates(variant, body)) = 0 THEN <<>>
                      ELSE Deduped(variant, body, parsed)
       IN  /\ suggestions' = deduped
           /\ showSuggestions' = (Len(deduped) > 0)
    /\ isLoading' = FALSE
    /\ pc' = "ok"
    /\ UNCHANGED <<variant, tokVars, fmtVars, compVars>>

\* A response that is not ok, or fetch / response.json() throwing.
ResponseFailed ==
    /\ pc = "awaiting"
    /\ suggestions' = <<>>
    /\ showSuggestions' = FALSE
    /\ isLoading' = FALSE
    /\ pc' = "failed"
    /\ UNCHANGED <<variant, tokVars, fmtVars, results, compVars>>

NextSearch ==
    \/ \E text \in SearchTexts : Call(text)
    \/ SearchShort
    \/ SearchFetch
    \/ \E body \in ResponseBodies : ResponseOk(body)
    \/ ResponseFailed

SpecSearch == InitSearch /\ [][NextSearch]_vars

\* --------------------------------------------- properties of the formatter
FmtScanDone == pc = "formatted" /\ variant = "scan"

StartsWith(s, prefix) ==
    Len(prefix) <= Len(s) /\ SubSeq(s, 1, Len(prefix)) = prefix

\* text shows seg as its street segment: seg is all of it, or its first part.
ShowsSegment(text, seg) == text = seg \/ StartsWith(text, seg \o <<",">>)

FirstNonEmpty(values) ==
    LET full == {i \in 1..Len(values) : Truthy(values[i])}
    IN  IF full = {} THEN <<>> ELSE values[Min(full)]

\* C3: for a record with an address object, a non-empty hint number is the
\* number of the street segment whatever the record's house_number and road
\* are, and a non-empty hint street is the street of the segment.
C3_HintOverridesRecord ==
    FmtScanDone /\ IsObject(result.address) =>
        LET addr == result.address
            road == OrEmpty(addr.road)
        IN  /\ Truthy(injected.number) /\ Truthy(injected.street) =>
                ShowsSegment(formatted, injected.street \o <<" ">> \o injected.number)
            /\ Truthy(injected.number) /\ ~Truthy(injected.street) /\ Truthy(road) =>
                ShowsSegment(formatted, road \o <<" ">> \o injected.number)
            /\ Truthy(injected.street) /\ ~Truthy(injected.number) =>
                ShowsSegment(formatted,
                    IF Truthy(addr.house_number)
                    THEN injected.street \o <<" ">> \o addr.house_number
                    ELSE injected.street)

\* A hint whose street does not match the record's road, over a record that
\* has its own house number.
C3_Witness ==
    /\ FmtScanDone
    /\ IsObject(result.address)
    /\ result.address.road = <<"A", "b">>
    /\ result.address.house_number = <<"7">>
    /\ injected = [street |-> <<"c">>, number |-> <<"1">>]
    /\ StartsWith(formatted, <<"c", " ", "1">>)

\* The record has no structured address data at all.
NoAddressData(rec) ==
    \/ ~IsObject(rec.address)
    \/ \A f \in DOMAIN rec.address : ~Truthy(rec.address[f])

\* C4 as stated: a record with no structured address data is formatted as
\* its display_name, for every hint.
C4_NoDataGivesDisplayName ==
    FmtScanDone /\ NoAddressData(result) => formatted = result.display_name

\* C4 amended: display_name is returned unchanged when the address object is
\* missing (for every hint) and when it is present with every field empty
\* and the hint has no street; with every field empty and a hint street the
\* result is the hint's street followed by the hint's number, if any.
C4_NoDataGivesDisplayNameOrHint ==
    FmtScanDone /\ NoAddressData(result) =>
        IF ~IsObject(result.address) \/ ~Truthy(injected.street)
        THEN formatted = result.display_name
        ELSE formatted = (IF Truthy(injected.number)
                          THEN injected.street \o <<" ">> \o injected.number
                          ELSE injected.street)

\* A record without address object, formatted under a hint with street and number.
C4_Witness ==
    /\ FmtScanDone
    /\ ~IsObject(result.address)
    /\ Truthy(injected.street)
    /\ Truthy(injected.number)
    /\ formatted = result.display_name

\* The parts C5 lists, in its order, for a record with an address object.
ListedParts(rec, hint) ==
    LET addr == rec.address
        street == FirstNonEmpty(<<hint.street, addr.road>>)
        number == FirstNonEmpty(<<hint.number, addr.house_number>>)
        segment == IF street = <<>> THEN <<>>
                   ELSE IF number = <<>> THEN street
                   ELSE street \o <<" ">> \o number
        locality == FirstNonEmpty(<<addr.town, addr.suburb, addr.village>>)
        municipality == FirstNonEmpty(<<addr.municipality, addr.city_district, addr.city>>)
        state == FirstNonEmpty(<<addr.state>>)
        NonEmpty(part) == part # <<>>
    IN  SelectSeq(<<segment, locality, municipality, state>>, NonEmpty)

\* C5 as stated: the result is the ", "-join of the listed non-empty parts,
\* or display_name when there is none.
C5_JoinOfParts ==
    FmtScanDone /\ IsObject(result.address) =>
        LET parts == ListedParts(result, injected)
        IN  formatted = (IF parts = <<>> THEN result.display_name
                         ELSE Join(parts, <<",", " ">>))

\* C5 amended: the result is the ", "-join of the listed non-empty parts with
\* its leading and trailing whitespace trimmed, or display_name when the
\* trimmed join is empty.
C5_TrimmedJoinOfParts ==
    FmtScanDone /\ IsObject(result.address) =>
        LET joined == Trim(Join(ListedParts(result, injected), <<",", " ">>))
        IN  formatted = (IF joined = <<>> THEN result.display_name ELSE joined)

\* All four parts present, the locality and the municipality each with a
\* lower-priority field also set, postcode and country set.
C5_Witness ==
    /\ FmtScanDone
    /\ IsObject(result.address)
    /\ Len(ListedParts(result, injected)) = 4
    /\ Truthy(result.address.town) /\ Truthy(result.address.suburb)
    /\ ~Truthy(result.address.municipality)
    /\ Truthy(result.address.city_district) /\ Truthy(result.address.city)
    /\ Truthy(result.address.postcode) /\ Truthy(result.address.country)
    /\ formatted = Join(ListedParts(result, injected), <<",", " ">>)

\* ------------------------------------------- properties of searchAddresses
\* A successful response has just been processed.
SearchOk == pc = "ok"

\* The candidates that entered the formatting step, formatted.
FormattedCandidates == MapFormatted(variant, Candidates(variant, results), parsed)

NamesOf(entries) == {entries[i].display_name : i \in 1..Len(entries)}
EntriesOf(entries) == {entries[i] : i \in 1..Len(entries)}

\* C6: with a number in the hint the suggestions are exactly the formatted
\* candidates whose string contains it, or all formatted candidates when none
\* contains it, so the list is non-empty when a candidate was formatted.
C6_NumberFilterFallsBack ==
    SearchOk /\ Truthy(parsed.number) =>
        LET all == EntriesOf(FormattedCandidates)
            withNumber == {m \in all : Includes(m.display_name, parsed.number)}
            kept == IF withNumber = {} THEN all ELSE withNumber
        IN  /\ EntriesOf(suggestions) \subseteq kept
            /\ NamesOf(suggestions) = {m.display_name : m \in kept}
            /\ all # {} => suggestions # <<>> /\ showSuggestions

\* No formatted candidate contains the hint's number, and all are suggested.
C6_Witness ==
    /\ SearchOk
    /\ Truthy(parsed.number)
    /\ FormattedCandidates # <<>>
    /\ \A m \in EntriesOf(FormattedCandidates) : ~Includes(m.display_name, parsed.number)
    /\ NamesOf(suggestions) = NamesOf(FormattedCandidates)
    /\ showSuggestions

\* The candidates the number filter leaves.
FilteredCandidates == FilterByNumber(FormattedCandidates, parsed)

\* Position of the first entry of entries with the given display_name.
FirstWith(entries, name) ==
    Min({k \in 1..Len(entries) : entries[k].display_name = name})

\* C7: the suggestions hold no display_name twice, hold every display_name of
\* the filtered candidates, each entry is the first candidate with its
\* display_name, and the entries are in the order of those first occurrences.
C7_DedupeKeepsFirstInOrder ==
    SearchOk =>
        LET kept == FilteredCandidates
            n == Len(suggestions)
        IN  /\ \A i, j \in 1..n :
                   i # j => suggestions[i].display_name # suggestions[j].display_name
            /\ NamesOf(suggestions) = NamesOf(kept)
            /\ \A i \in 1..n :
                   suggestions[i] = kept[FirstWith(kept, suggestions[i].display_name)]
            /\ \A i, j \in 1..n :
                   i < j => FirstWith(kept, suggestions[i].display_name)
                              < FirstWith(kept, suggestions[j].display_name)

\* Two candidates formatted to the same string: the first one is suggested.
C7_Witness ==
    /\ SearchOk
    /\ Len(FilteredCandidates) = 2
    /\ FilteredCandidates[1].display_name = FilteredCandidates[2].display_name
    /\ FilteredCandidates[1] # FilteredCandidates[2]
    /\ suggestions = <<FilteredCandidates[1]>>

\* C8: in the scan build no suggestion is a lookup result without a road, and
\* when no result has a road the list is empty and hidden.
C8_NoSuggestionWithoutRoad ==
    variant = "scan" =>
        /\ \A i \in 1..Len(suggestions) : HasRoad(suggestions[i])
        /\ SearchOk =>
             /\ \A i \in 1..Len(suggestions) :
                    /\ suggestions[i].lat \in 1..Len(results)
                    /\ HasRoad(results[suggestions[i].lat])
             /\ (\A k \in 1..Len(results) : ~HasRoad(results[k])) =>
                    suggestions = <<>> /\ ~showSuggestions

\* A response with a record without road and one with: only the latter is
\* suggested.
C8_Witness ==
    /\ variant = "scan"
    /\ SearchOk
    /\ \E k \in 1..Len(results) : ~HasRoad(results[k])
    /\ \E k \in 1..Len(results) : HasRoad(results[k])
    /\ Len(suggestions) = 1
    /\ HasRoad(results[suggestions[1].lat])

\* ------------------------------------- properties of the gated formatter
FmtRegexDone == pc = "formatted" /\ variant = "regex"

\* The hint's street loosely matches the road: both non-empty and one
\* contains the other, letter case aside.
LooselyMatches(hintStreet, road) ==
    LET user == ToLowerCase(OrEmpty(hintStreet))
        osm == ToLowerCase(OrEmpty(road))
    IN  user # <<>> /\ osm # <<>> /\ (Includes(osm, user) \/ Includes(user, osm))

\* The string built from the record's own road and house_number only.
OwnOnly(rec) ==
    LET joined == Trim(Join(ListedParts(rec, [street |-> <<>>, number |-> Null]),
                            <<",", " ">>))
    IN  IF joined = <<>> THEN rec.display_name ELSE joined

\* C11 as stated: without a loose match of the hint's street and the record's
\* road the gated formatter builds its output from the record's own road and
\* house_number only.
C11_NoMatchNoInjection ==
    FmtRegexDone /\ IsObject(result.address)
                 /\ ~LooselyMatches(injected.street, result.address.road) =>
        formatted = OwnOnly(result)

\* C11 amended: for a record with a road and a hint without a loose match the
\* output is built from the record's own road and house_number only; for a
\* record without a road the street segment is the hint's street followed by
\* the hint's number (if any), and the record's own fields only when the hint
\* has no street.
C11_NoMatchNoInjectionUnlessNoRoad ==
    FmtRegexDone /\ IsObject(result.address)
                 /\ ~LooselyMatches(injected.street, result.address.road) =>
        IF Truthy(result.address.road) \/ ~Truthy(injected.street)
        THEN formatted = OwnOnly(result)
        ELSE ShowsSegment(formatted,
                 IF Truthy(injected.number)
                 THEN injected.street \o <<" ">> \o injected.number
                 ELSE injected.street)

\* A record with road and house number under a hint with another street and
\* a number: the record's own number is shown.
C11_Witness ==
    /\ FmtRegexDone
    /\ IsObject(result.address)
    /\ result.address.road = <<"A", "b">>
    /\ result.address.house_number = <<"7">>
    /\ injected = [street |-> <<"c">>, number |-> <<"1">>]
    /\ StartsWith(formatted, <<"A", "b", " ", "7">>)

\* ------------------------------------------------------------ the component
\* AddressAutocomplete mounted in App: the user types, presses keys, clicks
\* and leaves the input; timers expire and lookups answer in any order.

\* Texts typed: too short; two streets with a number.
InputTexts == {<<"a", "b">>, <<"a", "b", " ", "1">>, <<"c", " ", "2">>}

\* Bodies a lookup answers with: no record (no valid result), and the same
\* road in two towns.
UiBodies ==
    {<<>>,
     <<[display_name |-> <<"N">>, lat |-> 1, address |-> Addr(<<"A", "b">>, Undefined, <<"T">>)],
       [display_name |-> <<"N">>, lat |-> 2, address |-> Addr(<<"A", "b">>, <<"1">>, <<"V">>)]>>}

Keys == {"ArrowDown", "ArrowUp", "Enter", "Escape"}

\* clearTimeout(id): a timer that has not fired never will.
ClearTimeout(ts, id) ==
    IF id \in DOMAIN ts /\ ts[id].status = "pending"
    THEN [ts EXCEPT ![id].status = "cleared"]
    ELSE ts

ClearPreviousNever(ts, ref) == ts

\* if (debounceRef.current) clearTimeout(debounceRef.current), on input change.
ClearPrevious(ts, ref) == IF ref # NoTimer THEN ClearTimeout(ts, ref) ELSE ts

CleanupNothing(ts, ref) == ts

\* The cleanup of the unmount effect.
Cleanup(ts, ref) == IF ref # NoTimer THEN ClearTimeout(ts, ref) ELSE ts

\* setTimeout(() => searchAddresses(newValue), 300): the new timer's id.
SetTimeout(ts, newValue) == Append(ts, [value |-> newValue, status |-> "pending"])

TooShortNever(text) == FALSE

\* query.length < 3
TooShort(text) == Len(text) < MinQueryLength

ShownAlways(deduped) == TRUE

\* setShowSuggestions(deduped.length > 0)
Shown(deduped) == Len(deduped) > 0

\* What a response that is ok makes the list: nothing when no record is a
\* candidate, else the deduplicated formatted candidates.
OnResponse(v, body, hint) ==
    IF Len(Candidates(v, body)) = 0 THEN <<>> ELSE Deduped(v, body, hint)

FailureKeepsList == [suggestions |-> suggestions, showSuggestions |-> showSuggestions]

\* The else branch and the catch of searchAddresses.
Failure == [suggestions |-> <<>>, showSuggestions |-> FALSE]

handleAddressSelectAnyDetails(saved, address, details) ==
    IF address = saved
    THEN [addressSaved |-> saved, files |-> <<>>]
    ELSE [addressSaved |-> address, files |-> <<address>>]

\* App.handleAddressSelect: the saved address and the files saved.
handleAddressSelect(saved, address, details) ==
    IF ~IsObject(details)
    THEN [addressSaved |-> saved, files |-> <<>>]
    ELSE IF address = saved
         THEN [addressSaved |-> saved, files |-> <<>>]
         ELSE [addressSaved |-> address, files |-> <<address>>]

\* onAddressSelect(address, details) called by a handler that leaves `input`
\* in the input: App handles it, and when the value prop changed the effect
\* on [value] puts it in the input.
OnAddressSelect(address, details, input) ==
    LET app == handleAddressSelect(addressSaved, address, details)
    IN  /\ emitted' = <<[address |-> address, details |-> details]>>
        /\ addressSaved' = app.addressSaved
        /\ downloads' = app.files
        /\ inputValue' = IF app.addressSaved # addressSaved
                         THEN app.addressSaved ELSE input

NoCallback == emitted' = <<>> /\ downloads' = <<>> /\ UNCHANGED addressSaved

idleVars == <<variant, pc, tokVars, fmtVars, results>>

SelectedRawText(suggestion) ==
    [inputValue |-> suggestion.display_name, address |-> inputValue,
     details |-> suggestion]

\* handleSuggestionClick(suggestion): the input text and the callback's arguments.
Selected(suggestion) ==
    [inputValue |-> suggestion.display_name, address |-> suggestion.display_name,
     details |-> suggestion]

\* handleSuggestionClick run by the handler named event.
SuggestionSelected(suggestion, event) ==
    LET sel == Selected(suggestion)
    IN  /\ suggestions' = <<>>
        /\ showSuggestions' = FALSE
        /\ selectedIndex' = -1
        /\ OnAddressSelect(sel.address, sel.details, sel.inputValue)
        /\ lastEvent' = event
        /\ UNCHANGED <<idleVars, isLoading, debounceRef, timers, calls, mounted>>

\* The user edits the input.
HandleInputChange(newValue) ==
    /\ mounted
    /\ Len(timers) < MaxInputs
    /\ inputValue' = newValue
    /\ selectedIndex' = -1
    /\ timers' = SetTimeout(ClearPrevious(timers, debounceRef), newValue)
    /\ debounceRef' = Len(timers) + 1
    /\ NoCallback
    /\ lastEvent' = "change"
    /\ UNCHANGED <<idleVars, uiVars, calls, mounted>>

\* A timer expires and searchAddresses(newValue) runs to its first await, or
\* returns at once for a short query.
TimerExpires(id) ==
    /\ id \in DOMAIN timers
    /\ timers[id].status = "pending"
    /\ timers' = [timers EXCEPT ![id].status = "fired"]
    /\ LET text == timers[id].value
           call == [query |-> text, timer |-> id, mounted |-> mounted,
                    status |-> "awaiting", outcome |-> <<>>]
       IN  IF TooShort(text)
           THEN /\ suggestions' = <<>>
                /\ showSuggestions' = FALSE
                /\ UNCHANGED isLoading
                /\ calls' = Append(calls, [call EXCEPT !.status = "short"])
           ELSE /\ isLoading' = TRUE
                /\ UNCHANGED <<suggestions, showSuggestions>>
                /\ calls' = Append(calls, call)
    /\ NoCallback
    /\ lastEvent' = "timer"
    /\ UNCHANGED <<idleVars, inputValue, selectedIndex, debounceRef, mounted>>

\* The response of call k arrives and is ok.
LookupOk(k, body) ==
    /\ k \in DOMAIN calls
    /\ calls[k].status = "awaiting"
    /\ LET deduped == OnResponse(variant, body, Tokenize(variant, calls[k].query))
       IN  /\ suggestions' = deduped
           /\ showSuggestions' = Shown(deduped)
           /\ calls' = [calls EXCEPT ![k].status = "ok", ![k].outcome = deduped]
    /\ isLoading' = FALSE
    /\ NoCallback
    /\ lastEvent' = "response"
    /\ UNCHANGED <<idleVars, inputValue, selectedIndex, debounceRef, timers, mounted>>

\* The response of call k is not ok, or fetch / response.json() throws.
LookupFailed(k) ==
    /\ k \in DOMAIN calls
    /\ calls[k].status = "awaiting"
    /\ suggestions' = Failure.suggestions
    /\ showSuggestions' = Failure.showSuggestions
    /\ calls' = [calls EXCEPT ![k].status = "failed"]
    /\ isLoading' = FALSE
    /\ NoCallback
    /\ lastEvent' = "response"
    /\ UNCHANGED <<idleVars, inputValue, selectedIndex, debounceRef, timers, mounted>>

\* A key is pressed in the input.
HandleKeyDown(key) ==
    /\ mounted
    /\ IF ~showSuggestions \/ Len(suggestions) = 0
       THEN /\ IF key = "Enter"
               THEN OnAddressSelect(inputValue, NoObject, inputValue)
               ELSE NoCallback /\ UNCHANGED inputValue
            /\ lastEvent' = key
            /\ UNCHANGED <<idleVars, uiVars, selectedIndex, debounceRef, timers,
                           calls, mounted>>
       ELSE CASE key = "ArrowDown" ->
                 /\ selectedIndex' = IF selectedIndex < Len(suggestions) - 1
                                     THEN selectedIndex + 1 ELSE selectedIndex
                 /\ NoCallback
                 /\ lastEvent' = key
                 /\ UNCHANGED <<idleVars, uiVars, inputValue, debounceRef, timers,
                                calls, mounted>>
              [] key = "ArrowUp" ->
                 /\ selectedIndex' = IF selectedIndex > 0
                                     THEN selectedIndex - 1 ELSE -1
                 /\ NoCallback
                 /\ lastEvent' = key
                 /\ UNCHANGED <<idleVars, uiVars, inputValue, debounceRef, timers,
                                calls, mounted>>
              [] key = "Enter" ->
                 IF selectedIndex >= 0 /\ selectedIndex < Len(suggestions)
                 THEN SuggestionSelected(suggestions[selectedIndex + 1], key)
                 ELSE /\ OnAddressSelect(inputValue, NoObject, inputValue)
                      /\ lastEvent' = key
                      /\ UNCHANGED <<idleVars, uiVars, selectedIndex, debounceRef,
                                     timers, calls, mounted>>
              [] key = "Escape" ->
                 /\ suggestions' = <<>>
                 /\ showSuggestions' = FALSE
                 /\ selectedIndex' = -1
                 /\ NoCallback
                 /\ lastEvent' = key
                 /\ UNCHANGED <<idleVars, isLoading, inputValue, debounceRef,
                                timers, calls, mounted>>

\* A suggestion of the rendered list is clicked.
HandleSuggestionClick(i) ==
    /\ mounted
    /\ showSuggestions
    /\ i \in 1..Len(suggestions)
    /\ SuggestionSelected(suggestions[i], "click")

\* The input loses the focus.
HandleBlur ==
    /\ mounted
    /\ IF inputValue # addressSaved
       THEN OnAddressSelect(inputValue, NoObject, inputValue)
       ELSE NoCallback /\ UNCHANGED inputValue
    /\ lastEvent' = "blur"
    /\ UNCHANGED <<idleVars, uiVars, selectedIndex, debounceRef, timers, calls,
                   mounted>>

\* A mousedown outside the input and outside the rendered list.
HandleClickOutside ==
    /\ mounted
    /\ showSuggestions
    /\ Len(suggestions) > 0
    /\ showSuggestions' = FALSE
    /\ selectedIndex' = -1
    /\ NoCallback
    /\ lastEvent' = "outside"
    /\ UNCHANGED <<idleVars, suggestions, isLoading, inputValue, debounceRef,
                   timers, calls, mounted>>

\* The component is torn down.
Unmount ==
    /\ mounted
    /\ mounted' = FALSE
    /\ timers' = Cleanup(timers, debounceRef)
    /\ NoCallback
    /\ lastEvent' = "unmount"
    /\ UNCHANGED <<idleVars, uiVars, inputValue, selectedIndex, debounceRef, calls>>

Init ==
    /\ variant \in Variants
    /\ pc = "idle"
    /\ TokIdle
    /\ FmtIdle
    /\ Mounted

Next ==
    \/ \E newValue \in InputTexts : HandleInputChange(newValue)
    \/ \E id \in DOMAIN timers : TimerExpires(id)
    \/ \E k \in DOMAIN calls, body \in UiBodies : LookupOk(k, body)
    \/ \E k \in DOMAIN calls : LookupFailed(k)
    \/ \E key \in Keys : HandleKeyDown(key)
    \/ \E i \in DOMAIN suggestions : HandleSuggestionClick(i)
    \/ HandleBlur
    \/ HandleClickOutside
    \/ Unmount

Spec == Init /\ [][Next]_vars

\* ---------------------------------------------- properties of the component

Pending == {id \in DOMAIN timers : timers[id].status = "pending"}
CallsOf(id) == {k \in DOMAIN calls : calls[k].timer = id}

\* C12: at most one debounced lookup is scheduled, the one of the latest input
\* change; every earlier timer either fired before the next input change or
\* was cancelled by it, and a cancelled one never starts searchAddresses;
\* a timer that fired started searchAddresses once, with the value typed
\* when it was scheduled.
C12_OneScheduledLookup ==
    /\ Cardinality(Pending) <= 1
    /\ \A id \in Pending : id = debounceRef /\ id = Len(timers)
    /\ \A id \in DOMAIN timers :
          /\ timers[id].status = "cleared" => CallsOf(id) = {}
          /\ timers[id].status = "pending" => CallsOf(id) = {}
          /\ timers[id].status = "fired" =>
                /\ Cardinality(CallsOf(id)) = 1
                /\ \A k \in CallsOf(id) : calls[k].query = timers[id].value

\* A burst of two input changes: the first value's lookup was cancelled, the
\* second one's started.
C12_Witness ==
    /\ Len(timers) = 2
    /\ timers[1].status = "cleared"
    /\ timers[2].status = "fired"
    /\ timers[1].value # timers[2].value
    /\ Len(calls) = 1
    /\ calls[1].query = timers[2].value

\* C13: once the component is unmounted no lookup is scheduled any more, and
\* every searchAddresses call was started while the component was mounted.
C13_NoSearchAfterTeardown ==
    /\ ~mounted => Pending = {}
    /\ \A k \in DOMAIN calls : calls[k].mounted

\* Torn down with a lookup scheduled: the timer of the last input change was
\* cancelled and started nothing.
C13_Witness ==
    /\ ~mounted
    /\ debounceRef # NoTimer
    /\ timers[debounceRef].status = "cleared"
    /\ CallsOf(debounceRef) = {}

AllArrived == \A k \in DOMAIN calls : calls[k].status # "awaiting"

\* C14: when the last response of overlapping lookups has just arrived, the
\* list is the one the lookup started last computed.
C14_LastStartedLookupWins ==
    /\ Len(calls) >= 2
    /\ calls[Len(calls)].status \in {"ok", "failed"}
    /\ AllArrived
    /\ lastEvent = "response"
    => suggestions = calls[Len(calls)].outcome

\* The calls whose response arrives in this step.
Completing == {k \in DOMAIN calls : calls[k].status = "awaiting" /\ calls'[k].status # "awaiting"}

\* C15: the step in which a lookup's response arrives leaves the loading flag
\* false, whether the lookup succeeded, found no valid result or failed; and
\* when it failed the step leaves the list empty and hidden.
C15_FailureClearsLoadingReset ==
    [][\A k \in Completing :
          /\ isLoading' = FALSE
          /\ calls'[k].status = "failed" =>
                suggestions' = <<>> /\ showSuggestions' = FALSE]_vars

\* A lookup has just failed after an earlier one had filled the list.
C15_Witness ==
    /\ lastEvent = "response"
    /\ Len(calls) = 2
    /\ calls[1].status = "ok"
    /\ calls[1].outcome # <<>>
    /\ calls[2].status = "failed"
    /\ suggestions = <<>>
    /\ showSuggestions = FALSE
    /\ isLoading = FALSE

\* The searchAddresses calls started in this step.
Starting == {k \in DOMAIN calls' : k \notin DOMAIN calls}

\* C16: a searchAddresses call with a query shorter than 3 characters issues
\* no fetch, does not touch the loading flag and leaves the list empty and
\* hidden; a call with a longer query issues the fetch.
C16_ShortQueryNoLookup ==
    [][\A k \in Starting :
          IF Len(calls'[k].query) < 3
          THEN /\ calls'[k].status = "short"
               /\ suggestions' = <<>>
               /\ showSuggestions' = FALSE
               /\ isLoading' = isLoading
          ELSE calls'[k].status = "awaiting"]_vars

\* searchAddresses has just returned for a two-character query while an
\* earlier lookup is still in flight.
C16_Witness ==
    /\ lastEvent = "timer"
    /\ Len(calls) = 2
    /\ calls[1].status = "awaiting"
    /\ Len(calls[2].query) = 2
    /\ calls[2].status = "short"
    /\ suggestions = <<>>
    /\ showSuggestions = FALSE
    /\ isLoading = TRUE

\* What selecting the suggestion at position i of the current list must leave.
SelectionOf(i) ==
    /\ emitted' = <<[address |-> suggestions[i].display_name,
                     details |-> suggestions[i]]>>
    /\ inputValue' = suggestions[i].display_name
    /\ suggestions' = <<>>
    /\ showSuggestions' = FALSE
    /\ selectedIndex' = -1

\* C17: a click on a suggestion, and Enter while the list is shown and
\* selectedIndex is one of its indices, call onAddressSelect once with that
\* suggestion's string and record, put the string in the input and leave the
\* list empty, hidden and nothing highlighted; any other Enter calls
\* onAddressSelect once with the input's text and no record.
C17_SelectionCallsBack ==
    [][/\ lastEvent' = "click" => \E i \in DOMAIN suggestions : SelectionOf(i)
       /\ lastEvent' = "Enter" =>
             IF /\ showSuggestions
                /\ Len(suggestions) > 0
                /\ selectedIndex >= 0
                /\ selectedIndex < Len(suggestions)
             THEN SelectionOf(selectedIndex + 1)
             ELSE /\ emitted' = <<[address |-> inputValue, details |-> NoObject]>>
                  /\ inputValue' = inputValue
                  /\ suggestions' = suggestions]_vars

\* Enter has just selected the highlighted suggestion, whose string is not
\* the text that was typed.
C17_Witness ==
    /\ lastEvent = "Enter"
    /\ Len(emitted) = 1
    /\ IsObject(emitted[1].details)
    /\ emitted[1].address = emitted[1].details.display_name
    /\ inputValue = emitted[1].address
    /\ inputValue \notin InputTexts
    /\ suggestions = <<>>
    /\ showSuggestions = FALSE
    /\ selectedIndex = -1

C19_SelectedIndexInList ==
    selectedIndex = -1 \/ (0 <= selectedIndex /\ selectedIndex < Len(suggestions))

\* C20: whenever showSuggestions is true the suggestion list is not empty.
C20_ShownListNotEmpty == showSuggestions => Len(suggestions) > 0

\* A lookup that filled the list was followed by one that answered ok with
\* nothing to suggest: the list is empty and hidden.
C20_Witness ==
    /\ lastEvent = "response"
    /\ Len(calls) = 2
    /\ calls[1].status = "ok"
    /\ calls[1].outcome # <<>>
    /\ calls[2].status = "ok"
    /\ calls[2].outcome = <<>>
    /\ suggestions = <<>>
    /\ showSuggestions = FALSE

\* ------------------------------ the number filter in the token-scanning build

\* C21: in the token-scanning build, when the hint has a number every
\* formatted candidate contains it, so the number filter keeps every
\* candidate, is never empty when a candidate was formatted, and the
\* suggestions are the formatted candidates.
C21_ScanFilterKeepsAll ==
    SearchOk /\ variant = "scan" /\ Truthy(parsed.number) =>
        LET mapped == FormattedCandidates
            HasNumber(m) == Includes(m.display_name, parsed.number)
            filtered == SelectSeq(mapped, HasNumber)
        IN  /\ \A i \in 1..Len(mapped) : HasNumber(mapped[i])
            /\ filtered = mapped
            /\ NamesOf(suggestions) = NamesOf(mapped)

\* A suggestion of the token-scanning build holds the hint's number although
\* its record has a house number without it.
C21_Witness ==
    /\ SearchOk
    /\ variant = "scan"
    /\ Truthy(parsed.number)
    /\ \E i \in 1..Len(suggestions) :
          /\ Truthy(suggestions[i].address.house_number)
          /\ ~Includes(suggestions[i].address.house_number, parsed.number)
          /\ Includes(suggestions[i].display_name, parsed.number)

\* -------------------------------- the number the token scanner gives back

\* Digits first, then letters, digits, hyphens or slashes.
NumericShape(token) ==
    /\ Len(token) >= 1
    /\ token[1] \in Digit
    /\ \A i \in 1..Len(token) :
          token[i] \in Digit \cup Lower \cup Upper \cup {"-", "/"}

\* C22: a number returned by the token-scanning tokenizer is a token of the
\* head, other than the first, that has the numeric shape, and the street
\* returned with it is not empty.
C22_NumberIsLaterNumericToken ==
    ScanDone /\ parsed.number # Null =>
        /\ \E i \in 2..Len(HeadTokens(query)) : HeadTokens(query)[i] = parsed.number
        /\ NumericShape(parsed.number)
        /\ parsed.street # <<>>

\* A number with a hyphen returned after a street that is itself a number.
C22_Witness ==
    /\ ScanDone
    /\ parsed.number # Null
    /\ \E i \in 1..Len(parsed.number) : parsed.number[i] = "-"
    /\ NumericShape(parsed.street)

====
